---------------------------- MODULE Spec2Model ----------------------------
(***************************************************************************)
(* Model of cabinet/build.py: discovery of dossier documents, document-ID  *)
(* assignment, rendering through the external converter, index assembly    *)
(* and cleanup of the output root.                                         *)
(*                                                                         *)
(* Text is modelled as a sequence of one-character strings, so that string *)
(* comparison, case mapping, trimming, splitting and HTML escaping are     *)
(* computed character by character as Python computes them.                *)
(***************************************************************************)
EXTENDS Integers, Sequences, FiniteSets, TLC

VARIABLES
    tree,        \* the source tree: [root, files], fixed during a behaviour
    disk,        \* the output root (site/cabinet): [files, dirs]
    pc,          \* the statement of main() to execute next, or "exit"
    exitStatus,  \* the process exit status once pc = "exit"
    stderr,      \* the error the run reported, if any
    dossiers,    \* main's local dossiers: the dict's items in insertion order
    built_at,    \* main's local built_at
    cursor,      \* the position of the render loop in its iteration order
    run,         \* the number of the current run of the script
    clock,       \* the wall clock, in seconds
    invoked,     \* the converter command lines started by this run, in order
    wrote,       \* the output files written by this run, in order
    diskAtStart, \* the output root as this run found it
    cleaned,     \* whether clean_generated has run in this run
    firstOut,    \* what the first successful run produced
    call,        \* a function applied on its own: [fn, arguments]
    ret          \* its result: <<>> before the application, <<result>> after

pipeVars ==
    <<tree, disk, pc, exitStatus, stderr, dossiers, built_at, cursor, run,
      clock, invoked, wrote, diskAtStart, cleaned, firstOut>>

vars == <<pipeVars, call, ret>>

NoRet == <<>>

(***************************************************************************)
(* Characters and Python's str operations                                  *)
(***************************************************************************)
LowerLetters ==
    <<"a","b","c","d","e","f","g","h","i","j","k","l","m",
      "n","o","p","q","r","s","t","u","v","w","x","y","z">>

UpperLetters ==
    <<"A","B","C","D","E","F","G","H","I","J","K","L","M",
      "N","O","P","Q","R","S","T","U","V","W","X","Y","Z">>

Digits == <<"0","1","2","3","4","5","6","7","8","9">>

Range(s) == {s[i] : i \in DOMAIN s}

IndexIn(s, c) == CHOOSE i \in DOMAIN s : s[i] = c

IsLower(c) == c \in Range(LowerLetters)
IsUpper(c) == c \in Range(UpperLetters)
IsAlpha(c) == IsLower(c) \/ IsUpper(c)
IsDigit(c) == c \in Range(Digits)
IsAlnum(c) == IsAlpha(c) \/ IsDigit(c)
IsSpace(c) == c \in {" ", "\t"}

\* ord(c): the code point, which is what Python compares strings by.
Ord(c) ==
    IF IsLower(c) THEN 96 + IndexIn(LowerLetters, c)
    ELSE IF IsUpper(c) THEN 64 + IndexIn(UpperLetters, c)
    ELSE IF IsDigit(c) THEN 47 + IndexIn(Digits, c)
    ELSE CASE c = "\t" -> 9
           [] c = " "  -> 32
           [] c = "\"" -> 34
           [] c = "#"  -> 35
           [] c = "&"  -> 38
           [] c = "'"  -> 39
           [] c = "-"  -> 45
           [] c = "."  -> 46
           [] c = "/"  -> 47
           [] c = ";"  -> 59
           [] c = "<"  -> 60
           [] c = ">"  -> 62
           [] c = "_"  -> 95

CharUpper(c) == IF IsLower(c) THEN UpperLetters[IndexIn(LowerLetters, c)] ELSE c
CharLower(c) == IF IsUpper(c) THEN LowerLetters[IndexIn(UpperLetters, c)] ELSE c

StrUpper(s) == [i \in DOMAIN s |-> CharUpper(s[i])]
StrLower(s) == [i \in DOMAIN s |-> CharLower(s[i])]

Min(a, b) == IF a < b THEN a ELSE b

\* s[:n]
Prefix(s, n) == SubSeq(s, 1, Min(n, Len(s)))

\* s[n:] with n counted from 0 as in Python
Suffix(s, n) == SubSeq(s, n + 1, Len(s))

RECURSIVE LStrip(_)
LStrip(s) ==
    IF s # <<>> /\ IsSpace(Head(s)) THEN LStrip(Tail(s)) ELSE s

RECURSIVE RStrip(_)
RStrip(s) ==
    IF s # <<>> /\ IsSpace(s[Len(s)]) THEN RStrip(SubSeq(s, 1, Len(s) - 1)) ELSE s

\* str.strip()
Strip(s) == RStrip(LStrip(s))

\* str.replace(old, new) for a one-character old
RECURSIVE ReplaceChar(_, _, _)
ReplaceChar(s, c, new) ==
    IF s = <<>> THEN <<>>
    ELSE (IF Head(s) = c THEN new ELSE <<Head(s)>>) \o ReplaceChar(Tail(s), c, new)

\* str.title(): a letter is upper-cased when the character before it is not a
\* letter and lower-cased when it is; other characters are kept.
RECURSIVE TitleFrom(_, _)
TitleFrom(s, prevCased) ==
    IF s = <<>> THEN <<>>
    ELSE LET c == Head(s) IN
         IF IsAlpha(c)
         THEN <<IF prevCased THEN CharLower(c) ELSE CharUpper(c)>> \o TitleFrom(Tail(s), TRUE)
         ELSE <<c>> \o TitleFrom(Tail(s), FALSE)

StrTitle(s) == TitleFrom(s, FALSE)

\* Python's < on str: lexicographic by code point, a proper prefix first.
RECURSIVE StrLess(_, _)
StrLess(a, b) ==
    IF b = <<>> THEN FALSE
    ELSE IF a = <<>> THEN TRUE
    ELSE IF Head(a) = Head(b) THEN StrLess(Tail(a), Tail(b))
    ELSE Ord(Head(a)) < Ord(Head(b))

(***************************************************************************)
(* extract_title                                                           *)
(***************************************************************************)
H1ScanLines == 5
FallbackScanLines == 3

\* The length of the longest run of whitespace starting at position i of line.
RECURSIVE SpaceRun(_, _)
SpaceRun(line, i) ==
    IF i <= Len(line) /\ IsSpace(line[i]) THEN 1 + SpaceRun(line, i + 1) ELSE 0

\* re.match(r"^#\s+(.+)$", line): NoMatch, or group(1). \s+ is greedy and gives
\* back one character when it has consumed the rest of the line.
NoMatch == [ok |-> FALSE, v |-> <<>>]
Match(s) == [ok |-> TRUE, v |-> s]

MatchH1(line) ==
    IF line = <<>> \/ Head(line) # "#" THEN NoMatch
    ELSE LET ws == SpaceRun(line, 2) IN
         IF ws = 0 THEN NoMatch
         ELSE IF 1 + ws < Len(line) THEN Match(Suffix(line, 1 + ws))
         ELSE IF ws >= 2 THEN Match(Suffix(line, Len(line) - 1))
         ELSE NoMatch

\* for line in lines: m = re.match(...); if m: return m.group(1).strip()
RECURSIVE FirstH1(_)
FirstH1(lines) ==
    IF lines = <<>> THEN NoMatch
    ELSE LET m == MatchH1(Head(lines)) IN
         IF m.ok THEN Match(Strip(m.v)) ELSE FirstH1(Tail(lines))

\* for line in lines: stripped = line.strip(); if stripped: return stripped
RECURSIVE FirstNonEmpty(_)
FirstNonEmpty(lines) ==
    IF lines = <<>> THEN NoMatch
    ELSE LET stripped == Strip(Head(lines)) IN
         IF stripped # <<>> THEN Match(stripped) ELSE FirstNonEmpty(Tail(lines))

\* md_path.stem.replace("-", " ").replace("_", " ").title()
TitleFromStem(stem) ==
    StrTitle(ReplaceChar(ReplaceChar(stem, "-", <<" ">>), "_", <<" ">>))

\* A plausible slip: the fallback scan uses the heading scan's window.
extract_title_window(stem, lines) ==
    LET h == FirstH1(Prefix(lines, H1ScanLines)) IN
    IF h.ok THEN h.v
    ELSE LET t == FirstNonEmpty(Prefix(lines, H1ScanLines)) IN
         IF t.ok THEN t.v ELSE TitleFromStem(stem)

extract_title(stem, lines) ==
    LET h == FirstH1(Prefix(lines, H1ScanLines)) IN
    IF h.ok THEN h.v
    ELSE LET t == FirstNonEmpty(Prefix(lines, FallbackScanLines)) IN
         IF t.ok THEN t.v ELSE TitleFromStem(stem)

(***************************************************************************)
(* dossier_code                                                            *)
(***************************************************************************)
WontonSoup == <<"w","o","n","t","o","n","-","s","o","u","p">>
LeniaSwarm == <<"l","e","n","i","a","-","s","w","a","r","m">>

\* DOSSIER_CODES, as a function on its keys
DOSSIER_CODES ==
    (WontonSoup :> <<"W", "S">>) @@ (LeniaSwarm :> <<"L", "S">>)

InitialsWords == 3
FallbackChars == 2

\* re.split(r"[^a-zA-Z0-9]+", s): the pieces between the maximal runs of
\* separators, the empty first and last pieces included. cur is the piece
\* being read, inSep whether the previous character was a separator.
RECURSIVE ReSplitFrom(_, _, _)
ReSplitFrom(s, cur, inSep) ==
    IF s = <<>> THEN <<cur>>
    ELSE IF IsAlnum(Head(s)) THEN ReSplitFrom(Tail(s), Append(cur, Head(s)), FALSE)
    ELSE IF inSep THEN ReSplitFrom(Tail(s), cur, TRUE)
    ELSE <<cur>> \o ReSplitFrom(Tail(s), <<>>, TRUE)

ReSplitNonAlnum(s) == ReSplitFrom(s, <<>>, FALSE)

\* [p for p in pieces if p]
NonEmptyParts(pieces) == SelectSeq(pieces, LAMBDA p : p # <<>>)

\* "".join(p[0] for p in parts)
Initials(parts) == [i \in DOMAIN parts |-> parts[i][1]]

\* A plausible slip: the initials are not upper-cased.
dossier_code_noupper(dossier) ==
    IF dossier \in DOMAIN DOSSIER_CODES THEN DOSSIER_CODES[dossier]
    ELSE LET parts == NonEmptyParts(ReSplitNonAlnum(dossier))
             initials == Initials(Prefix(parts, InitialsWords))
         IN  IF initials # <<>> THEN initials
             ELSE StrUpper(Prefix(dossier, FallbackChars))

dossier_code(dossier) ==
    IF dossier \in DOMAIN DOSSIER_CODES THEN DOSSIER_CODES[dossier]
    ELSE LET parts == NonEmptyParts(ReSplitNonAlnum(dossier))
             initials == StrUpper(Initials(Prefix(parts, InitialsWords)))
         IN  IF initials # <<>> THEN initials
             ELSE StrUpper(Prefix(dossier, FallbackChars))

(***************************************************************************)
(* sorted(): Python's stable sort, as insertion of each element after the  *)
(* elements that are not greater.  lt is the set of index pairs <<i, j>>   *)
(* with key(items[i]) < key(items[j]).                                     *)
(***************************************************************************)
\* perm with index i inserted before the first element that is greater.
RECURSIVE InsertIdx(_, _, _)
InsertIdx(perm, i, lt) ==
    IF perm = <<>> THEN <<i>>
    ELSE IF <<i, Head(perm)>> \in lt THEN <<i>> \o perm
    ELSE <<Head(perm)>> \o InsertIdx(Tail(perm), i, lt)

RECURSIVE SortIdx(_, _)
SortIdx(n, lt) ==
    IF n = 0 THEN <<>> ELSE InsertIdx(SortIdx(n - 1, lt), n, lt)

\* A plausible slip: the sequence is used in the order it arrived in.
PySortedUnsorted(items, lt) == items

PySorted(items, lt) ==
    LET perm == SortIdx(Len(items), lt) IN
    [k \in DOMAIN items |-> items[perm[k]]]

\* list.__lt__ / tuple.__lt__ on sequences of strings
RECURSIVE PartsLess(_, _)
PartsLess(a, b) ==
    IF b = <<>> THEN FALSE
    ELSE IF a = <<>> THEN TRUE
    ELSE IF Head(a) = Head(b) THEN PartsLess(Tail(a), Tail(b))
    ELSE StrLess(Head(a), Head(b))

\* The pairs of positions of a sequence of n items
Pairs(items) == (DOMAIN items) \X (DOMAIN items)

(***************************************************************************)
(* pathlib                                                                 *)
(***************************************************************************)
Slash == <<"/">>

\* The position of the last "." of name, 0 when there is none.
LastDot(name) ==
    LET ds == {i \in DOMAIN name : name[i] = "."} IN
    IF ds = {} THEN 0 ELSE CHOOSE i \in ds : \A j \in ds : j <= i

\* PurePath.stem: the name without its last suffix; a leading or trailing
\* dot starts no suffix.
Stem(name) ==
    LET i == LastDot(name) IN
    IF 1 < i /\ i < Len(name) THEN SubSeq(name, 1, i - 1) ELSE name

\* rel.with_suffix("")
WithoutSuffix(rel) ==
    [k \in DOMAIN rel |-> IF k = Len(rel) THEN Stem(rel[k]) ELSE rel[k]]

\* PurePath.as_posix(): the parts joined by "/"
RECURSIVE AsPosix(_)
AsPosix(parts) ==
    IF parts = <<>> THEN <<>>
    ELSE IF Len(parts) = 1 THEN parts[1]
    ELSE parts[1] \o Slash \o AsPosix(Tail(parts))

\* Path(s).parts for a relative s: the non-empty pieces between slashes.
RECURSIVE PathPartsFrom(_, _)
PathPartsFrom(s, cur) ==
    IF s = <<>> THEN (IF cur = <<>> THEN <<>> ELSE <<cur>>)
    ELSE IF Head(s) = "/"
         THEN (IF cur = <<>> THEN <<>> ELSE <<cur>>) \o PathPartsFrom(Tail(s), <<>>)
         ELSE PathPartsFrom(Tail(s), Append(cur, Head(s)))

PathParts(s) == PathPartsFrom(s, <<>>)

(***************************************************************************)
(* The source tree: Markdown files under dossiers/<dossier>/docs/          *)
(***************************************************************************)
DossiersDir == <<"d","o","s","s","i","e","r","s">>
DocsDir == <<"d","o","c","s">>
LabX == <<"l","a","b","-","x">>

Core == <<"c","o","r","e">>
Backends == <<"b","a","c","k","e","n","d","s">>
Providers == <<"p","r","o","v","i","d","e","r","s">>
Corpus == <<"c","o","r","p","u","s">>

AMd == <<"a",".","m","d">>
BMd == <<"b",".","m","d">>
CMd == <<"c",".","m","d">>
Zz == <<"z","z">>

\* A file of the universe: its dossier, its path below docs/, its lines.
SrcFile(d, rel, lines) == [dossier |-> d, rel |-> rel, lines |-> lines]

\* wonton-soup: a.md "b" and zz/b.md "B" tie on category rank and lowercase
\* title; core/c.md takes its title "C" from its name.  lab-x: two listed
\* categories whose order is not the order of the titles.
Universe ==
    { SrcFile(WontonSoup, <<AMd>>, << <<"b">> >>),
      SrcFile(WontonSoup, <<Zz, BMd>>, << <<"#", " ", "B">> >>),
      SrcFile(WontonSoup, <<Core, CMd>>, <<>>),
      SrcFile(LabX, <<Corpus, AMd>>, << <<>>, <<"#", " ", "C">> >>),
      SrcFile(LabX, <<Backends, BMd>>, << <<"#", " ", "D">> >>) }

\* Every dossier directory of the universe has a docs folder.
DossierDirs == {WontonSoup, LabX}

\* The sequences that list every element of S once
Orders(S) ==
    {s \in [1..Cardinality(S) -> S] : \A i, j \in DOMAIN s : s[i] = s[j] => i = j}

(***************************************************************************)
(* entry_sort_key                                                          *)
(***************************************************************************)
CATEGORY_ORDER == <<Core, Backends, Providers, Corpus>>

\* CATEGORY_ORDER.index(category), counted from 0, else len(CATEGORY_ORDER)
CategoryIdx(category) ==
    IF category \in Range(CATEGORY_ORDER)
    THEN IndexIn(CATEGORY_ORDER, category) - 1
    ELSE Len(CATEGORY_ORDER)

\* A plausible slip: the title is compared without lower-casing.
entry_sort_key_cased(entry) ==
    <<CategoryIdx(entry.category), entry.title, entry.slug>>

entry_sort_key(entry) ==
    <<CategoryIdx(entry.category), StrLower(entry.title), entry.slug>>

\* tuple.__lt__ on (int, str, str)
KeyLess(a, b) ==
    \/ a[1] < b[1]
    \/ a[1] = b[1] /\ StrLess(a[2], b[2])
    \/ a[1] = b[1] /\ a[2] = b[2] /\ StrLess(a[3], b[3])

EntryLess(e1, e2) == KeyLess(entry_sort_key(e1), entry_sort_key(e2))

\* sorted(entries, key=entry_sort_key)
SortedEntries(entries) == PySorted(entries, {p \in Pairs(entries) : EntryLess(entries[p[1]], entries[p[2]])})

(***************************************************************************)
(* find_docs                                                               *)
(***************************************************************************)
NoDocId == <<>>

\* The entry find_docs builds for one Markdown file (lines 55-65).
EntryOf(f) ==
    [ path     |-> <<DossiersDir, f.dossier, DocsDir>> \o f.rel,
      title    |-> extract_title(Stem(f.rel[Len(f.rel)]), f.lines),
      slug     |-> AsPosix(WithoutSuffix(f.rel)),
      category |-> IF Len(f.rel) > 1 THEN f.rel[1] ELSE <<>>,
      doc_id   |-> NoDocId ]

RelLess(f, g) == PartsLess(f.rel, g.rel)

\* find_docs with the file system listing the docs folders in the order
\* globOrder and each folder's files in the order rglobOrder[dossier].  The
\* result is the dict as the sequence of its items in insertion order.
RECURSIVE FindDocsFrom(_, _)
FindDocsFrom(docsDirs, rglobOrder) ==
    IF docsDirs = <<>> THEN <<>>
    ELSE LET dossier == Head(docsDirs)
             listed  == rglobOrder[dossier]
             mds     == PySorted(listed, {p \in Pairs(listed) : RelLess(listed[p[1]], listed[p[2]])})
             entries == [k \in DOMAIN mds |-> EntryOf(mds[k])]
             rest    == FindDocsFrom(Tail(docsDirs), rglobOrder)
         IN  IF entries # <<>>
             THEN <<[dossier |-> dossier, entries |-> entries]>> \o rest
             ELSE rest

find_docs(globOrder, rglobOrder) ==
    FindDocsFrom(PySorted(globOrder, {p \in Pairs(globOrder) : StrLess(globOrder[p[1]], globOrder[p[2]])}), rglobOrder)

(***************************************************************************)
(* assign_doc_ids                                                          *)
(***************************************************************************)
\* The decimal digits of n
RECURSIVE Decimal(_)
Decimal(n) ==
    IF n < 10 THEN <<Digits[n + 1]>>
    ELSE Decimal(n \div 10) \o <<Digits[(n % 10) + 1]>>

RECURSIVE ZeroFill(_, _)
ZeroFill(s, width) ==
    IF Len(s) >= width THEN s ELSE ZeroFill(<<"0">> \o s, width)

IdWidth == 3

\* f"{code}-{idx:03d}"
DocId(code, idx) == code \o <<"-">> \o ZeroFill(Decimal(idx), IdWidth)

\* The position of entry e in the sequence sorted
PositionIn(sorted, e) == CHOOSE k \in DOMAIN sorted : sorted[k] = e

\* One dossier's entries with doc_id set from the position in sorted order;
\* the list itself keeps its order.
WithDocIds(dossier, entries) ==
    LET code   == dossier_code(dossier)
        sorted == SortedEntries(entries)
    IN  [k \in DOMAIN entries |->
            [entries[k] EXCEPT !.doc_id = DocId(code, PositionIn(sorted, entries[k]))]]

assign_doc_ids(ds) ==
    [k \in DOMAIN ds |->
        [dossier |-> ds[k].dossier, entries |-> WithDocIds(ds[k].dossier, ds[k].entries)]]

(***************************************************************************)
(* The output root and the files in it.  A path is the sequence of its     *)
(* components below site/cabinet; a file holds its data and, for the       *)
(* record, the number of the run that wrote it (0: before the first run).  *)
(***************************************************************************)
IndexHtml == <<"i","n","d","e","x",".","h","t","m","l">>
TemplateName == <<"c","a","b","i","n","e","t","-","t","e","m","p","l","a","t","e",".","h","t","m","l">>
IndexTemplateName == <<"i","n","d","e","x","-","t","e","m","p","l","a","t","e",".","h","t","m","l">>

\* TEMPLATE, INDEX_TEMPLATE and the aggregate index, as paths
TEMPLATE == <<TemplateName>>
INDEX_TEMPLATE == <<IndexTemplateName>>
IndexOut == <<IndexHtml>>

IsFile(d, path) == path \in DOMAIN d.files

Ancestors(path) == {SubSeq(path, 1, k) : k \in 1..Len(path)}

\* out_dir.mkdir(parents=True, exist_ok=True)
Mkdir(d, path) == [d EXCEPT !.dirs = @ \cup Ancestors(path)]

\* path.write_text(data) by run r
WriteText(d, path, data, r) ==
    [d EXCEPT !.files = (path :> [data |-> data, run |-> r]) @@ @]

(***************************************************************************)
(* render_doc                                                              *)
(***************************************************************************)
DISPLAY_NAMES ==
    (WontonSoup :> <<"W","o","n","t","o","n"," ","S","o","u","p">>)
        @@ (LeniaSwarm :> <<"L","e","n","i","a"," ","S","w","a","r","m">>)

\* DISPLAY_NAMES.get(dossier, dossier.replace("-", " ").title())
DisplayName(dossier) ==
    IF dossier \in DOMAIN DISPLAY_NAMES THEN DISPLAY_NAMES[dossier]
    ELSE StrTitle(ReplaceChar(dossier, "-", <<" ">>))

\* A plausible slip: the dossier is left out of the output directory.
output_dir_for_flat(dossier, slug) == PathParts(slug)

\* CABINET_DIR / dossier / slug, below CABINET_DIR
output_dir_for(dossier, slug) == <<dossier>> \o PathParts(slug)

BaseDepth == 2

\* "../" * depth
RECURSIVE RootPrefix(_)
RootPrefix(depth) ==
    IF depth = 0 THEN <<>> ELSE <<".", ".", "/">> \o RootPrefix(depth - 1)

PageTitleSuffix == <<" ","|"," ","S","P","E","C","T","E","R"," ","L","a","b","s">>

\* The metadata of the pandoc command line (lines 120-143); the other
\* arguments are the same for every document.
RenderCmd(entry, dossier, builtAt) ==
    [ src         |-> entry.path,
      pagetitle   |-> entry.title \o PageTitleSuffix,
      slug        |-> entry.slug,
      doc_id      |-> entry.doc_id,
      dossier     |-> DisplayName(dossier),
      root_prefix |-> RootPrefix(BaseDepth + Len(PathParts(entry.slug))),
      source_path |-> AsPosix(entry.path),
      built_at    |-> builtAt,
      category    |-> IF entry.category # <<>> THEN <<entry.category>> ELSE <<>> ]

\* The converter is a function of its arguments: its standard output.
Rendered(cmd) == [kind |-> "doc", cmd |-> cmd]

\* A plausible slip: the output is written before the return code is looked at.
render_doc_write_first(d, entry, dossier, builtAt, returncode, r) ==
    LET out_dir  == output_dir_for(dossier, entry.slug)
        out_file == Append(out_dir, IndexHtml)
        cmd      == RenderCmd(entry, dossier, builtAt)
    IN  [ cmd      |-> cmd,
          out_file |-> out_file,
          failed   |-> returncode # 0,
          disk     |-> WriteText(Mkdir(d, out_dir), out_file, Rendered(cmd), r) ]

\* render_doc on disk d in run r, the converter ending with returncode: the
\* command started, the output file, whether the run is ended, the disk after.
render_doc(d, entry, dossier, builtAt, returncode, r) ==
    LET out_dir  == output_dir_for(dossier, entry.slug)
        out_file == Append(out_dir, IndexHtml)
        cmd      == RenderCmd(entry, dossier, builtAt)
        made     == Mkdir(d, out_dir)
    IN  [ cmd      |-> cmd,
          out_file |-> out_file,
          failed   |-> returncode # 0,
          disk     |-> IF returncode # 0 THEN made
                       ELSE WriteText(made, out_file, Rendered(cmd), r) ]

(***************************************************************************)
(* build_index                                                             *)
(***************************************************************************)
\* html.escape(s): & first, then <, >, and the two quotes
HtmlEscape(s) ==
    LET s1 == ReplaceChar(s, "&", <<"&","a","m","p",";">>)
        s2 == ReplaceChar(s1, "<", <<"&","l","t",";">>)
        s3 == ReplaceChar(s2, ">", <<"&","g","t",";">>)
        s4 == ReplaceChar(s3, "\"", <<"&","q","u","o","t",";">>)
    IN  ReplaceChar(s4, "'", <<"&","#","x","2","7",";">>)

\* f"{dossier}/{entry['slug']}/"
Href(dossier, entry) == dossier \o Slash \o entry.slug \o Slash

\* A plausible slip: the title is inserted as it is.
DrawerItemRawTitle(dossier, entry) ==
    [ href     |-> HtmlEscape(Href(dossier, entry)),
      doc_id   |-> HtmlEscape(entry.doc_id),
      title    |-> entry.title,
      cat_span |-> IF entry.category # <<>>
                   THEN <<HtmlEscape(entry.category)>> ELSE <<>> ]

\* The text build_index inserts into one <a class="drawer-item"> (lines
\* 166-181); cat_span holds the category of the optional span.
DrawerItem(dossier, entry) ==
    [ href     |-> HtmlEscape(Href(dossier, entry)),
      doc_id   |-> HtmlEscape(entry.doc_id),
      title    |-> HtmlEscape(entry.title),
      cat_span |-> IF entry.category # <<>>
                   THEN <<HtmlEscape(entry.category)>> ELSE <<>> ]

\* A plausible slip: the links are listed in the order of the entries list.
DrawerListOrder(dossier, entries) ==
    [ display |-> HtmlEscape(DisplayName(dossier)),
      count   |-> Len(entries),
      items   |-> [k \in DOMAIN entries |-> DrawerItem(dossier, entries[k])] ]

\* The text build_index inserts into one <div class="cabinet-drawer">
\* (lines 160-193).
Drawer(dossier, entries) ==
    LET entries_sorted == SortedEntries(entries) IN
    [ display |-> HtmlEscape(DisplayName(dossier)),
      count   |-> Len(entries),
      items   |-> [k \in DOMAIN entries_sorted |->
                      DrawerItem(dossier, entries_sorted[k])] ]

DossierLess(a, b) == StrLess(a.dossier, b.dossier)

\* sorted(dossiers.items()), sorted(dossiers.keys()): the names are distinct
SortedDossiers(ds) == PySorted(ds, {p \in Pairs(ds) : DossierLess(ds[p[1]], ds[p[2]])})

\* The index page: the template with its marker replaced by the drawers.
build_index(ds) ==
    LET sorted == SortedDossiers(ds) IN
    [ kind    |-> "index",
      drawers |-> [k \in DOMAIN sorted |-> Drawer(sorted[k].dossier, sorted[k].entries)] ]

(***************************************************************************)
(* clean_generated                                                         *)
(***************************************************************************)
\* A plausible slip: only the directories of the dossiers found are removed.
clean_generated_found(d) ==
    LET children == {c \in d.dirs : Len(c) = 1
                        /\ \E k \in DOMAIN dossiers : c = <<dossiers[k].dossier>>}
        Below(p) == SubSeq(p, 1, 1) \in children
    IN  [ files |-> [p \in {q \in DOMAIN d.files : ~Below(q)} |-> d.files[p]],
          dirs  |-> {q \in d.dirs : ~Below(q)} ]

\* shutil.rmtree of every child of CABINET_DIR that is a directory
clean_generated(d) ==
    LET children == {c \in d.dirs : Len(c) = 1}
        Below(p) == SubSeq(p, 1, 1) \in children
    IN  [ files |-> [p \in {q \in DOMAIN d.files : ~Below(q)} |-> d.files[p]],
          dirs  |-> {q \in d.dirs : ~Below(q)} ]

(***************************************************************************)
(* main                                                                    *)
(***************************************************************************)
MaxRuns == 2

\* A plausible slip: the output root is cleaned before the documents are looked for.
StepAfterCleanEarly(step) ==
    CASE step = "pandoc"   -> "template"
      [] step = "template" -> "clean"
      [] step = "clean"    -> "find"
      [] step = "find"     -> "assign"
      [] step = "assign"   -> "render"
      [] step = "render"   -> "index"
      [] step = "index"    -> "exit"

\* The order of main's statements (lines 209-236)
StepAfter(step) ==
    CASE step = "pandoc"   -> "template"
      [] step = "template" -> "find"
      [] step = "find"     -> "assign"
      [] step = "assign"   -> "clean"
      [] step = "clean"    -> "render"
      [] step = "render"   -> "index"
      [] step = "index"    -> "exit"

NoError == [msg |-> "none"]
NoOutput == [set |-> FALSE]

\* The render loop's iteration order: for dossier, entries in
\* sorted(dossiers.items()): for entry in entries
RECURSIVE Flatten(_)
Flatten(ds) ==
    IF ds = <<>> THEN <<>>
    ELSE [k \in DOMAIN Head(ds).entries |->
             [dossier |-> Head(ds).dossier, entry |-> Head(ds).entries[k]]]
         \o Flatten(Tail(ds))

RenderOrder(ds) == Flatten(SortedDossiers(ds))

\* The doc ID of every document, by source path
DocIds(ds) ==
    {<<ds[d].entries[i].path, ds[d].entries[i].doc_id>> :
        <<d, i>> \in {x \in (DOMAIN ds) \X (1..Cardinality(Universe)) :
                        x[2] \in DOMAIN ds[x[1]].entries}}

\* The files below the subdirectories of the output root, without the
\* record of the run that wrote them.
Generated(d) ==
    LET ps == {p \in DOMAIN d.files : Len(p) > 1} IN
    [p \in ps |-> d.files[p].data]

FilesOf(d) == {f \in tree.files : f.dossier = d}

\* What the file system may list: the docs folders that exist, in any order,
\* and each folder's Markdown files, in any order.
GlobOrders == IF tree.root THEN Orders(DossierDirs) ELSE {<<>>}

RglobOrders ==
    {r \in [DossierDirs -> UNION {Orders(FilesOf(d)) : d \in DossierDirs}] :
        \A d \in DossierDirs : r[d] \in Orders(FilesOf(d))}

StaleData == [kind |-> "stale"]
TemplateData == [kind |-> "template"]

Gone == <<"g","o","n","e">>

StaleFiles ==
    { IndexOut,
      <<WontonSoup, Core, <<"c">>, IndexHtml>>,
      <<LabX, Gone, IndexHtml>>,
      <<Gone, IndexHtml>> }

DiskWith(paths, data, d) ==
    [ files |-> [p \in paths |-> [data |-> data, run |-> 0]] @@ d.files,
      dirs  |-> d.dirs \cup UNION {Ancestors(SubSeq(p, 1, Len(p) - 1)) : p \in paths} ]

EmptyDisk == [files |-> <<>>, dirs |-> {}]

InitialDisks ==
    { DiskWith(stale, StaleData, DiskWith(templates, TemplateData, EmptyDisk)) :
        stale \in {{}, StaleFiles},
        templates \in SUBSET {TEMPLATE, INDEX_TEMPLATE} }

Trees ==
    {[root |-> TRUE, files |-> fs] : fs \in SUBSET Universe}
        \cup {[root |-> FALSE, files |-> {}]}

\* The pipeline's variables when no run is under way
PipeIdle ==
    /\ tree = [root |-> FALSE, files |-> {}]
    /\ disk = EmptyDisk
    /\ pc = "exit"
    /\ exitStatus = 0
    /\ stderr = NoError
    /\ dossiers = <<>>
    /\ built_at = 0
    /\ cursor = 1
    /\ run = MaxRuns
    /\ clock = 1
    /\ invoked = <<>>
    /\ wrote = <<>>
    /\ diskAtStart = EmptyDisk
    /\ cleaned = FALSE
    /\ firstOut = NoOutput

Init ==
    /\ tree \in Trees
    /\ disk \in InitialDisks
    /\ diskAtStart = disk
    /\ pc = "pandoc"
    /\ exitStatus = 0
    /\ stderr = NoError
    /\ dossiers = <<>>
    /\ built_at = 0
    /\ cursor = 1
    /\ run = 1
    /\ clock = 1
    /\ invoked = <<>>
    /\ wrote = <<>>
    /\ cleaned = FALSE
    /\ firstOut = NoOutput
    /\ call = [fn |-> "main"]
    /\ ret = NoRet

\* sys.exit(status) after printing err to stderr
Exit(status, err) ==
    /\ pc' = "exit"
    /\ exitStatus' = status
    /\ stderr' = err

Goto(step) ==
    /\ pc' = step
    /\ UNCHANGED <<exitStatus, stderr>>

\* if not shutil.which("pandoc"): ... sys.exit(1)
CheckPandoc ==
    /\ pc = "pandoc"
    /\ \E found \in BOOLEAN :
          IF found THEN Goto(StepAfter("pandoc"))
          ELSE Exit(1, [msg |-> "pandoc not found"])
    /\ UNCHANGED <<tree, disk, dossiers, built_at, cursor, run, clock, invoked,
                   wrote, diskAtStart, cleaned, firstOut, call, ret>>

\* if not TEMPLATE.is_file(): ... sys.exit(1)
CheckTemplate ==
    /\ pc = "template"
    /\ IF IsFile(disk, TEMPLATE) THEN Goto(StepAfter("template"))
       ELSE Exit(1, [msg |-> "Missing template"])
    /\ UNCHANGED <<tree, disk, dossiers, built_at, cursor, run, clock, invoked,
                   wrote, diskAtStart, cleaned, firstOut, call, ret>>

\* dossiers = find_docs(); if not dossiers: ... sys.exit(1)
FindDocs ==
    /\ pc = "find"
    /\ \E globOrder \in GlobOrders, rglobOrder \in RglobOrders :
          LET found == find_docs(globOrder, rglobOrder) IN
          /\ dossiers' = found
          /\ IF found # <<>> THEN Goto(StepAfter("find"))
             ELSE Exit(1, [msg |-> "No docs found"])
    /\ UNCHANGED <<tree, disk, built_at, cursor, run, clock, invoked, wrote,
                   diskAtStart, cleaned, firstOut, call, ret>>

\* assign_doc_ids(dossiers); built_at = datetime.now(timezone.utc)...
AssignDocIds ==
    /\ pc = "assign"
    /\ dossiers' = assign_doc_ids(dossiers)
    /\ built_at' = clock
    /\ Goto(StepAfter("assign"))
    /\ UNCHANGED <<tree, disk, cursor, run, clock, invoked, wrote, diskAtStart,
                   cleaned, firstOut, call, ret>>

\* clean_generated()
CleanGenerated ==
    /\ pc = "clean"
    /\ disk' = clean_generated(disk)
    /\ cleaned' = TRUE
    /\ Goto(StepAfter("clean"))
    /\ UNCHANGED <<tree, dossiers, built_at, cursor, run, clock, invoked, wrote,
                   diskAtStart, firstOut, call, ret>>

\* One iteration of the render loop: render_doc(entry, dossier, built_at),
\* the converter ending with any return code.  A loop over no document
\* (which the empty-dossiers check excludes) falls through.
RenderDoc ==
    /\ pc = "render"
    /\ LET order == RenderOrder(dossiers) IN
       IF cursor > Len(order)
       THEN /\ Goto(StepAfter("render"))
            /\ UNCHANGED <<disk, invoked, wrote, cursor>>
       ELSE \E returncode \in {0, 1} :
            LET job == order[cursor]
                res == render_doc(disk, job.entry, job.dossier, built_at, returncode, run)
            IN  /\ disk' = res.disk
                /\ invoked' = Append(invoked, res.cmd)
                /\ IF res.failed
                   THEN /\ Exit(1, [msg |-> "FAIL", path |-> job.entry.path])
                        /\ UNCHANGED <<wrote, cursor>>
                   ELSE /\ wrote' = Append(wrote, res.out_file)
                        /\ cursor' = cursor + 1
                        /\ Goto(IF cursor = Len(order) THEN StepAfter("render")
                                ELSE "render")
    /\ UNCHANGED <<tree, dossiers, built_at, run, clock, diskAtStart, cleaned,
                   firstOut, call, ret>>

\* build_index(dossiers); print("Done.").  Reading a missing index template
\* raises, which ends the run with a traceback and status 1.
BuildIndex ==
    /\ pc = "index"
    /\ IF IsFile(disk, INDEX_TEMPLATE)
       THEN LET after == WriteText(disk, IndexOut, build_index(dossiers), run) IN
            /\ disk' = after
            /\ wrote' = Append(wrote, IndexOut)
            /\ firstOut' = IF firstOut.set THEN firstOut
                           ELSE [ set       |-> TRUE,
                                  built_at  |-> built_at,
                                  doc_ids   |-> DocIds(dossiers),
                                  cmds      |-> Range(invoked),
                                  index     |-> after.files[IndexOut].data,
                                  generated |-> Generated(after) ]
            /\ Exit(0, NoError)
       ELSE /\ Exit(1, [msg |-> "FileNotFoundError"])
            /\ UNCHANGED <<disk, wrote, firstOut>>
    /\ UNCHANGED <<tree, dossiers, built_at, cursor, run, clock, invoked,
                   diskAtStart, cleaned, call, ret>>

\* The script is run again on the same tree, at once or a second later.
Rerun ==
    /\ pc = "exit"
    /\ run < MaxRuns
    /\ \E elapsed \in {0, 1} : clock' = clock + elapsed
    /\ run' = run + 1
    /\ diskAtStart' = disk
    /\ pc' = "pandoc"
    /\ exitStatus' = 0
    /\ stderr' = NoError
    /\ dossiers' = <<>>
    /\ built_at' = 0
    /\ cursor' = 1
    /\ invoked' = <<>>
    /\ wrote' = <<>>
    /\ cleaned' = FALSE
    /\ UNCHANGED <<tree, disk, firstOut, call, ret>>

Next ==
    \/ CheckPandoc
    \/ CheckTemplate
    \/ FindDocs
    \/ AssignDocIds
    \/ CleanGenerated
    \/ RenderDoc
    \/ BuildIndex
    \/ Rerun

Spec == Init /\ [][Next]_vars

(***************************************************************************)
(* Documents the title extraction is applied to                            *)
(***************************************************************************)
MaxLines == 6

TitleLines ==
    { <<>>,
      <<" ">>,
      <<"#", " ", " ", "A", "b", " ">>,
      <<"#", "\t", "c">>,
      <<" ", "x", " ", "y", " ">>,
      <<"#", "d">>,
      <<"#", " ", " ">> }

TitleStems ==
    { <<"m", "y", "-", "A", "P", "I", "_", "v", "2", "b">> }

TitleDocs ==
    UNION { [1..n -> TitleLines] : n \in 0..MaxLines }

InitTitle ==
    /\ call \in [fn : {"extract_title"}, stem : TitleStems, lines : TitleDocs]
    /\ ret = NoRet
    /\ PipeIdle

ApplyExtractTitle ==
    /\ call.fn = "extract_title"
    /\ ret = NoRet
    /\ ret' = <<extract_title(call.stem, call.lines)>>
    /\ UNCHANGED <<call, pipeVars>>

NextTitle == ApplyExtractTitle

SpecTitle == InitTitle /\ [][NextTitle]_vars

(***************************************************************************)
(* Collection names the code derivation is applied to                      *)
(***************************************************************************)
MaxNameLen == 7

NameChars == {"a", "B", "7", "-", "_"}

AlphaBetaGamma ==
    <<"a","l","p","h","a","-","b","e","t","a","-","g","a","m","m","a">>

CodeNames ==
    UNION { [1..n -> NameChars] : n \in 1..MaxNameLen }
        \cup {WontonSoup, LeniaSwarm, AlphaBetaGamma}

InitCode ==
    /\ call \in [fn : {"dossier_code"}, dossier : CodeNames]
    /\ ret = NoRet
    /\ PipeIdle

ApplyDossierCode ==
    /\ call.fn = "dossier_code"
    /\ ret = NoRet
    /\ ret' = <<dossier_code(call.dossier)>>
    /\ UNCHANGED <<call, pipeVars>>

NextCode == ApplyDossierCode

SpecCode == InitCode /\ [][NextCode]_vars

(***************************************************************************)
(* Texts the index assembly is applied to: one collection named name with  *)
(* one document <name>/<name>.md whose title is title                      *)
(***************************************************************************)
MaxTextLen == 2

MarkupChars == {"<", ">", "&", "\"", "'", "a"}

MarkupTexts == UNION { [1..n -> MarkupChars] : n \in 0..MaxTextLen }

\* The dossiers main would hold after assign_doc_ids for that collection.
OneDocDossiers(name, title) ==
    assign_doc_ids(
        << [ dossier |-> name,
             entries |-> << [ path     |-> <<DossiersDir, name, DocsDir, name, name \o <<".","m","d">> >>,
                              title    |-> title,
                              slug     |-> AsPosix(<<name, name>>),
                              category |-> name,
                              doc_id   |-> NoDocId ] >> ] >>)

InitEscape ==
    /\ call \in [fn : {"build_index"}, name : MarkupTexts \ {<<>>}, title : MarkupTexts]
    /\ ret = NoRet
    /\ PipeIdle

ApplyBuildIndex ==
    /\ call.fn = "build_index"
    /\ ret = NoRet
    /\ ret' = <<build_index(OneDocDossiers(call.name, call.title))>>
    /\ UNCHANGED <<call, pipeVars>>

NextEscape == ApplyBuildIndex

SpecEscape == InitEscape /\ [][NextEscape]_vars

(***************************************************************************)
(* C8: extract_title returns the trimmed text of the first level-1 heading *)
(* among the first 5 lines; failing that the trimmed text of the first     *)
(* non-blank line among the first 3; failing that the file stem with       *)
(* hyphens and underscores turned into spaces and every word capitalised.  *)
(* Lines after the 5th (respectively the 3rd) never contribute.            *)
(***************************************************************************)
SetMin(S) == CHOOSE x \in S : \A y \in S : x <= y
SetMax(S) == CHOOSE x \in S : \A y \in S : y <= x

\* The text between the first and the last non-whitespace character.
Trimmed(s) ==
    LET ns == {i \in DOMAIN s : ~IsSpace(s[i])} IN
    IF ns = {} THEN <<>> ELSE SubSeq(s, SetMin(ns), SetMax(ns))

\* "# <text>": a hash, whitespace, then at least one more character.
IsH1Line(l) == Len(l) >= 3 /\ l[1] = "#" /\ IsSpace(l[2])

\* Every word (maximal run of letters) starts upper-case and continues lower-case.
WordsCapitalised(stem) ==
    [i \in DOMAIN stem |->
        IF stem[i] \in {"-", "_"} THEN " "
        ELSE IF ~IsAlpha(stem[i]) THEN stem[i]
        ELSE IF i > 1 /\ IsAlpha(stem[i - 1]) THEN CharLower(stem[i])
        ELSE CharUpper(stem[i])]

ExpectedTitle(stem, lines) ==
    LET hs == {i \in DOMAIN lines : i <= 5 /\ IsH1Line(lines[i])}
        ts == {i \in DOMAIN lines : i <= 3 /\ Trimmed(lines[i]) # <<>>}
    IN  IF hs # {} THEN Trimmed(Suffix(lines[SetMin(hs)], 1))
        ELSE IF ts # {} THEN Trimmed(lines[SetMin(ts)])
        ELSE WordsCapitalised(stem)

WordStarts(s) ==
    {i \in DOMAIN s : IsAlnum(s[i]) /\ (i = 1 \/ ~IsAlnum(s[i - 1]))}

\* The k-th smallest element of a set of numbers.
Kth(S, k) == CHOOSE x \in S : Cardinality({y \in S : y < x}) = k - 1

ExpectedCode(name) ==
    LET ws == WordStarts(name)
        n  == IF Cardinality(ws) < 3 THEN Cardinality(ws) ELSE 3
    IN  IF name = WontonSoup THEN <<"W", "S">>
        ELSE IF name = LeniaSwarm THEN <<"L", "S">>
        ELSE IF ws # {} THEN [k \in 1..n |-> CharUpper(name[Kth(ws, k)])]
        ELSE [k \in 1..(IF Len(name) < 2 THEN Len(name) ELSE 2) |-> CharUpper(name[k])]

C9_DossierCode ==
    (call.fn = "dossier_code" /\ ret # NoRet)
        => /\ ret[1] = ExpectedCode(call.dossier)
           /\ (call.dossier # <<>> => ret[1] # <<>>)

\* Four words, of which the first three give the code.
C9_Witness ==
    /\ call.fn = "dossier_code"
    /\ call.dossier = <<"a", "-", "B", "_", "7", "-", "a">>
    /\ ret = << <<"A", "B", "7">> >>

(***************************************************************************)
(* Definitions the statements below share                                  *)
(***************************************************************************)
\* The run ended with exit status 0.
Succeeded == pc = "exit" /\ exitStatus = 0

\* The run ended on one of the three pre-checks.
PreCheckFailed ==
    pc = "exit" /\ stderr.msg \in {"pandoc not found", "Missing template", "No docs found"}

\* The run ended on a converter failure.
RenderFailed == pc = "exit" /\ stderr.msg = "FAIL"

ThreeDigits(k) ==
    <<Digits[((k \div 100) % 10) + 1], Digits[((k \div 10) % 10) + 1], Digits[(k % 10) + 1]>>

\* The rank of a category: its place in [core, backends, providers, corpus],
\* every other category after them.
CatRank(c) ==
    IF c = Core THEN 0 ELSE IF c = Backends THEN 1 ELSE IF c = Providers THEN 2
    ELSE IF c = Corpus THEN 3 ELSE 4

\* a comes before b in the order (category rank, lowercase title, slug).
Before(a, b) ==
    \/ CatRank(a.category) < CatRank(b.category)
    \/ /\ CatRank(a.category) = CatRank(b.category)
       /\ StrLess(StrLower(a.title), StrLower(b.title))
    \/ /\ CatRank(a.category) = CatRank(b.category)
       /\ StrLower(a.title) = StrLower(b.title)
       /\ StrLess(a.slug, b.slug)

\* The 1-based position of entries[i] in that order.
RankOf(entries, i) ==
    1 + Cardinality({j \in DOMAIN entries : Before(entries[j], entries[i])})

StartsWith(s, t) == Len(s) >= Len(t) /\ SubSeq(s, 1, Len(t)) = t

Entities ==
    { [text |-> <<"&","a","m","p",";">>, char |-> "&"],
      [text |-> <<"&","l","t",";">>, char |-> "<"],
      [text |-> <<"&","g","t",";">>, char |-> ">"],
      [text |-> <<"&","q","u","o","t",";">>, char |-> "\""],
      [text |-> <<"&","#","x","2","7",";">>, char |-> "'"] }

\* The text an HTML parser reads from s.
RECURSIVE HtmlUnescape(_)
HtmlUnescape(s) ==
    IF s = <<>> THEN <<>>
    ELSE IF \E e \in Entities : StartsWith(s, e.text)
    THEN LET e == CHOOSE x \in Entities : StartsWith(s, x.text) IN
         <<e.char>> \o HtmlUnescape(Suffix(s, Len(e.text)))
    ELSE <<Head(s)>> \o HtmlUnescape(Tail(s))

\* s holds no markup character except as the start of an entity.
NoRawMarkup(s) ==
    \A i \in DOMAIN s :
        /\ s[i] \notin {"<", ">", "\"", "'"}
        /\ s[i] = "&" => \E e \in Entities : StartsWith(Suffix(s, i - 1), e.text)

\* field is the escaped form of raw.
EscapedFormOf(field, raw) == NoRawMarkup(field) /\ HtmlUnescape(field) = raw

\* The index page this run wrote.
IndexPage == disk.files[IndexOut].data

\* The output file of source file f: <collection>/<slug>/index.html
OutFileOf(f) == <<f.dossier>> \o WithoutSuffix(f.rel) \o <<IndexHtml>>

SrcPathOf(f) == <<DossiersDir, f.dossier, DocsDir>> \o f.rel

(***************************************************************************)
(* C1: after assign_doc_ids, in every collection the document at position  *)
(* k of the order (category rank, lowercase title, slug) has the ID        *)
(* <code>-<k as 3 digits>: the IDs of a collection with n documents are    *)
(* pairwise distinct and are exactly 001..n.                               *)
(***************************************************************************)
IdsAssigned == pc \in {"clean", "render", "index", "exit"}

C1_DocIds ==
    IdsAssigned =>
        \A d \in DOMAIN dossiers :
            LET es   == dossiers[d].entries
                code == ExpectedCode(dossiers[d].dossier)
            IN  /\ \A i \in DOMAIN es :
                      es[i].doc_id = code \o <<"-">> \o ThreeDigits(RankOf(es, i))
                /\ \A i, j \in DOMAIN es : es[i].doc_id = es[j].doc_id => i = j
                /\ {es[i].doc_id : i \in DOMAIN es}
                      = {code \o <<"-">> \o ThreeDigits(k) : k \in 1..Len(es)}

\* wonton-soup with its three documents: core/c first, then a ("b") before
\* zz/b ("B") by slug.
C1_Witness ==
    /\ pc = "clean"
    /\ \E d \in DOMAIN dossiers :
          /\ dossiers[d].dossier = WontonSoup
          /\ [i \in DOMAIN dossiers[d].entries |->
                 <<dossiers[d].entries[i].slug, dossiers[d].entries[i].doc_id>>]
               = << <<<<"a">>, <<"W","S","-","0","0","2">>>>,
                    <<<<"c","o","r","e","/","c">>, <<"W","S","-","0","0","1">>>>,
                    <<<<"z","z","/","b">>, <<"W","S","-","0","0","3">>>> >>

(***************************************************************************)
(* C2: when the converter exits non-zero for a document the run ends at    *)
(* once with status 1: no later document is rendered, the failing          *)
(* document's index.html is not written, the aggregate index is not        *)
(* written in this run, and the index.html of every document rendered      *)
(* earlier in this run is on disk.                                         *)
(***************************************************************************)
C2_RenderFailure ==
    RenderFailed =>
        LET order == RenderOrder(dossiers) IN
        /\ exitStatus = 1
        /\ cursor \in DOMAIN order
        /\ stderr.path = order[cursor].entry.path
        /\ Len(invoked) = cursor
        /\ \A i \in DOMAIN order :
              LET out == Append(<<order[i].dossier>> \o PathParts(order[i].entry.slug), IndexHtml)
                  started == \E k \in DOMAIN invoked : invoked[k].src = order[i].entry.path
              IN  /\ i < cursor =>
                        /\ started
                        /\ out \in DOMAIN disk.files
                        /\ disk.files[out].run = run
                  /\ i = cursor => started /\ out \notin DOMAIN disk.files
                  /\ i > cursor => ~started /\ out \notin DOMAIN disk.files
        /\ IndexOut \notin Range(wrote)
        /\ IndexOut \in DOMAIN disk.files => disk.files[IndexOut].run < run

\* The third document of a second run fails after two were rendered.
C2_Witness ==
    /\ RenderFailed
    /\ run = 2
    /\ cursor = 3
    /\ Len(wrote) = 2
    /\ IndexOut \in DOMAIN disk.files

(***************************************************************************)
(* C3: when the converter binary is not found, the render template is      *)
(* missing or no document is discovered, the run exits with status 1       *)
(* before cleanup and before any render: nothing is written, no converter  *)
(* is started and the output root is left as it was.  A run goes past the  *)
(* pre-checks only with the template present and a document found.         *)
(***************************************************************************)
C3_PreChecks ==
    /\ PreCheckFailed =>
          /\ exitStatus = 1
          /\ ~cleaned
          /\ wrote = <<>>
          /\ invoked = <<>>
          /\ disk = diskAtStart
    /\ (cleaned \/ invoked # <<>> \/ wrote # <<>> \/ Succeeded) =>
          /\ IsFile(diskAtStart, TEMPLATE)
          /\ tree.files # {}

\* No document is found by a run that found subdirectories in the output root.
C3_Witness ==
    /\ PreCheckFailed
    /\ stderr.msg = "No docs found"
    /\ <<Gone, IndexHtml>> \in DOMAIN disk.files
    /\ <<Gone>> \in disk.dirs

(***************************************************************************)
(* C4: in a run that passes the pre-checks, cleanup runs after them and    *)
(* before the first render and removes every subdirectory of the output    *)
(* root; at the end of a successful run the files below the output root's  *)
(* subdirectories are exactly the output files of the documents discovered *)
(* in this run, each written by this run, as is the aggregate index.       *)
(***************************************************************************)
C4_CleanRegenerate ==
    /\ (invoked # <<>> \/ wrote # <<>>) => cleaned
    /\ cleaned => IsFile(diskAtStart, TEMPLATE) /\ dossiers # <<>>
    /\ (cleaned /\ invoked = <<>>) =>
          /\ disk.dirs = {}
          /\ \A p \in DOMAIN disk.files : Len(p) = 1
          /\ \A p \in DOMAIN diskAtStart.files :
                Len(p) = 1 => p \in DOMAIN disk.files /\ disk.files[p] = diskAtStart.files[p]
    /\ Succeeded =>
          /\ {p \in DOMAIN disk.files : Len(p) > 1} = {OutFileOf(f) : f \in tree.files}
          /\ \A p \in DOMAIN disk.files : Len(p) > 1 => disk.files[p].run = run
          /\ disk.dirs = UNION {Ancestors(SubSeq(OutFileOf(f), 1, Len(OutFileOf(f)) - 1)) :
                                   f \in tree.files}
          /\ disk.files[IndexOut].run = run

\* A run succeeds on an output root that held output no document accounts for.
C4_Witness ==
    /\ Succeeded
    /\ <<Gone, IndexHtml>> \in DOMAIN diskAtStart.files
    /\ <<LabX, Gone, IndexHtml>> \in DOMAIN diskAtStart.files
    /\ \E f \in tree.files : f.dossier = LabX

(***************************************************************************)
(* C5: a run on the same tree with the same build timestamp as the first   *)
(* successful run produces the same output: the same doc ID for every      *)
(* document, the same converter arguments, the same index and the same     *)
(* generated files, however the file system lists the folders and files    *)
(* and whatever the output root held.                                      *)
(***************************************************************************)
C5_Deterministic ==
    (Succeeded /\ firstOut.set /\ firstOut.built_at = built_at) =>
        /\ DocIds(dossiers) = firstOut.doc_ids
        /\ Range(invoked) = firstOut.cmds
        /\ IndexPage = firstOut.index
        /\ Generated(disk) = firstOut.generated

\* A second run of all five documents succeeds within the same second.
C5_Witness ==
    /\ Succeeded
    /\ run = 2
    /\ firstOut.set
    /\ firstOut.built_at = built_at
    /\ tree.files = Universe
    /\ diskAtStart # disk

(***************************************************************************)
(* C6: in the index a successful run writes, the collections appear in     *)
(* ascending order of name; each collection's fragment shows its number of *)
(* documents n and holds one link per document, in the order of the IDs:   *)
(* the j-th link shows ID j and points to the document with that ID.       *)
(***************************************************************************)
\* The 1-based position of dossiers[d] among the collections by name.
NameRank(d) ==
    1 + Cardinality({e \in DOMAIN dossiers :
                        StrLess(dossiers[e].dossier, dossiers[d].dossier)})

C6_IndexOrder ==
    Succeeded =>
        /\ Len(IndexPage.drawers) = Len(dossiers)
        /\ \A d \in DOMAIN dossiers :
              LET name   == dossiers[d].dossier
                  es     == dossiers[d].entries
                  drawer == IndexPage.drawers[NameRank(d)]
              IN  /\ drawer.count = Len(es)
                  /\ Len(drawer.items) = Len(es)
                  /\ \A j \in DOMAIN drawer.items :
                        /\ HtmlUnescape(drawer.items[j].doc_id)
                              = ExpectedCode(name) \o <<"-">> \o ThreeDigits(j)
                        /\ \E i \in DOMAIN es :
                              /\ es[i].doc_id = HtmlUnescape(drawer.items[j].doc_id)
                              /\ HtmlUnescape(drawer.items[j].href)
                                    = name \o Slash \o es[i].slug \o Slash
                              /\ HtmlUnescape(drawer.items[j].title) = es[i].title

\* Both collections, lab-x first, wonton-soup with its three links.
C6_Witness ==
    /\ Succeeded
    /\ Len(IndexPage.drawers) = 2
    /\ IndexPage.drawers[1].display = <<"L","a","b"," ","X">>
    /\ IndexPage.drawers[2].count = 3
    /\ IndexPage.drawers[2].items[3].href = <<"w","o","n","t","o","n","-","s","o","u","p","/","z","z","/","b","/">>

(***************************************************************************)
(* C7: every text build_index inserts into the index (display name, link   *)
(* href, doc ID, title, category) is HTML-escaped: the fragment holds      *)
(* <, >, & and the quotes of those texts only as entities, and reading the *)
(* entities back gives the text.                                           *)
(***************************************************************************)
C7_Escaped ==
    (call.fn = "build_index" /\ ret # NoRet) =>
        LET ds     == OneDocDossiers(call.name, call.title)
            entry  == ds[1].entries[1]
            drawer == ret[1].drawers[1]
            item   == drawer.items[1]
        IN  /\ EscapedFormOf(drawer.display, DisplayName(call.name))
            /\ EscapedFormOf(item.href, call.name \o Slash \o entry.slug \o Slash)
            /\ EscapedFormOf(item.doc_id, entry.doc_id)
            /\ EscapedFormOf(item.title, call.title)
            /\ Len(item.cat_span) = 1
            /\ EscapedFormOf(item.cat_span[1], call.name)

\* The title <& in a collection named "'
C7_Witness ==
    /\ call.fn = "build_index"
    /\ call.title = <<"<", "&">>
    /\ call.name = <<"\"", "'">>
    /\ ret # NoRet
    /\ ret[1].drawers[1].items[1].title = <<"&","l","t",";","&","a","m","p",";">>
    /\ ret[1].drawers[1].items[1].doc_id = <<"&","q","u","o","t",";","&","#","x","2","7",";","-","0","0","1">>

(***************************************************************************)
(* C10: at the end of a successful run every discovered document has been  *)
(* rendered exactly once, to its own file <collection>/<slug>/index.html   *)
(* (no two documents share one and none is the aggregate index), the       *)
(* aggregate index was written last, and the link targets of the index are *)
(* the directories this run wrote an index.html in.                        *)
(***************************************************************************)
C10_RenderedOnce ==
    Succeeded =>
        LET n == Cardinality(tree.files)
            targets == {HtmlUnescape(IndexPage.drawers[d].items[j].href) :
                           <<d, j>> \in {x \in (DOMAIN IndexPage.drawers) \X (1..n) :
                                           x[2] \in DOMAIN IndexPage.drawers[x[1]].items}}
        IN  /\ Len(invoked) = n
            /\ {invoked[k].src : k \in DOMAIN invoked} = {SrcPathOf(f) : f \in tree.files}
            /\ Len(wrote) = n + 1
            /\ wrote[n + 1] = IndexOut
            /\ {wrote[k] : k \in 1..n} = {OutFileOf(f) : f \in tree.files}
            /\ \A f, g \in tree.files : OutFileOf(f) = OutFileOf(g) => f = g
            /\ \A f \in tree.files : OutFileOf(f) # IndexOut
            /\ \A k \in 1..n :
                  /\ disk.files[wrote[k]].data = Rendered(invoked[k])
                  /\ disk.files[wrote[k]].run = run
            /\ targets = {AsPosix(SubSeq(wrote[k], 1, Len(wrote[k]) - 1)) \o Slash : k \in 1..n}

\* All five documents rendered, the index written sixth.
C10_Witness ==
    /\ Succeeded
    /\ Len(invoked) = 5
    /\ Len(wrote) = 6
    /\ wrote[6] = IndexOut

=============================================================================
